---- MODULE Spec2Model ----
(***************************************************************************)
(* The resumable, retrying batch-job runner of the repository: imagen.py   *)
(* (nanoBananGen/ and "Nano Banana Gen/") with its retry wrapper, its JSON *)
(* state and error journal, process_sku and the run loop of main.           *)
(*                                                                         *)
(* Durations are in tenths of a second.  Product codes are naturals.        *)
(***************************************************************************)
EXTENDS Integers, Sequences, FiniteSets, TLC

VARIABLES
    variant,            \* which imagen.py runs: "atomic" (nanoBananGen) or "legacy" (Nano Banana Gen)
    cfg,                \* the retry policy read from the environment at import
    catalog,            \* the content of PROMPTS_FILE: a sequence of records
    folders,            \* REFERENCE_ROOT: product code -> number of JPG references, or NoFolder
    stateFile,          \* content of STATE_FILE
    stateTmp,           \* content of STATE_FILE + ".tmp"
    errorFile,          \* content of ERROR_FILE
    errorTmp,           \* content of ERROR_FILE + ".tmp"
    files,              \* raw files the current run wrote under OUTPUT_ROOT: <<code, angle, ext>>
    run,                \* number of runs of main started so far
    args,               \* the command line of the current run
    pc,                 \* position of the running process ("idle": no process)
    exit,               \* how the last run ended
    completed,          \* main: the set load_completed_skus returned
    pending_items,      \* main: the pending list
    idx,                \* main: index of the item the loop is at (0 before the loop)
    processed_success,  \* main: SKUs process_sku returned True for
    sku,                \* locals of process_sku
    rc,                 \* locals of retry_call
    rec,                \* the journal write in progress (append_error / record_and_notify_error)
    budget,             \* how many more anomalies the environment may inject
    hist,               \* history of the current run (observation only)
    pool,               \* Misc Utilities/gpt-image-1.py: the tasks, the futures and main's counters
    up,                 \* upload_references: the directory listing and the handles returned
    batch               \* nanoBananGen/gpt-image-1.py: locals of process_subfolder

\* envVars: what no step of main and process_sku changes.
envVars  == <<variant, cfg, catalog, folders, pool, up, batch>>
diskVars == <<stateFile, stateTmp, errorFile, errorTmp, files>>
ctlVars  == <<pc, exit, sku, rec, hist>>
loopVars == <<run, args, completed, pending_items, idx, processed_success>>
vars     == <<variant, cfg, catalog, folders, stateFile, stateTmp, errorFile, errorTmp,
              files, run, args, pc, exit, completed, pending_items, idx,
              processed_success, sku, rc, rec, budget, hist, pool, up, batch>>


\* "No exception" / "no value", shaped like the exceptions and values of retry_call.
NoExc == <<"none", 0>>

Min(a, b) == IF a <= b THEN a ELSE b

(***************************************************************************)
(* Program constants.                                                      *)
(***************************************************************************)
RETRY_MAX_ATTEMPTS == 4
RETRY_BASE_DELAY_S == 20
RETRY_MAX_DELAY_S  == 200
MAX_REF_IMAGES     == 6

\* random.uniform(0.7, 1.3), in tenths: both ends and the middle.
Jitters == {7, 10, 13}

(***************************************************************************)
(* Bounds of the model.                                                    *)
(***************************************************************************)
MaxAttemptsCfg == 5     \* largest RETRY_MAX_ATTEMPTS override explored by SpecRetry
NumCodes       == 2     \* product codes
MaxCatalog     == 2     \* records in the catalog
MaxRefs        == 1     \* reference images in a well-filled folder
MaxRuns        == 2     \* runs of main, one after the other
MaxStopAfter   == 1     \* largest --stop-after
MaxAnomalies   == 1     \* departures of the environment from the nominal one, per behaviour
MaxPending     == 3     \* records in the catalog explored by SpecPending


(***************************************************************************)
(* Data.                                                                   *)
(***************************************************************************)
\* prompts = {"top": ..., "side": ..., "front_45": ..., "lifestyle": ...}
Angles == <<"top", "side", "front_45", "lifestyle">>

Codes    == 1..NumCodes
NoCode   == 0       \* a catalog record without "product_code"; "UNKNOWN" / "n/a" in a journal entry
NoFolder == 0 - 1   \* no directory under REFERENCE_ROOT starts with the code

\* A catalog record: has_prompts says whether ecomm_prompts.{top,side,front_45}
\* and lifestyle_prompt are all there.
Items    == [product_code : Codes \cup {NoCode}, has_prompts : BOOLEAN]
Catalogs(n) == UNION {[1..k -> Items] : k \in 0..n}

\* The content of a JSON file on disk.  A file opened for writing and not yet
\* written and closed is truncated: it does not parse.
Missing  == [kind |-> "missing"]
Corrupt  == [kind |-> "corrupt"]
Json(v)  == [kind |-> "json", val |-> v]

Range(q) == {q[i] : i \in DOMAIN q}

RECURSIVE SortedSeq(_)
\* sorted(comps)
SortedSeq(S) ==
    IF S = {} THEN <<>>
    ELSE LET m == CHOOSE x \in S : \A y \in S : x <= y
         IN <<m>> \o SortedSeq(S \ {m})

KI == "KeyboardInterrupt"

ArgsNone == [pause_on_error |-> FALSE, stop_after |-> 0]
NoRaw    == [mime |-> "", square |-> TRUE]
SkuIdle  == [code |-> NoCode, nrefs |-> 0, uploaded |-> 0, angle |-> 0, gen_try |-> 0,
             first_err |-> "", gen_calls |-> 0,
             raw |-> NoRaw, done |-> {}, new_state |-> <<>>]
RecIdle  == [entry |-> <<NoCode, "", "">>, site |-> "", then |-> "", err |-> "",
             obj |-> <<>>]
NoIntr   == [idx |-> 0, code |-> NoCode, at |-> "", partial |-> FALSE]
NoMark   == [in |-> FALSE, prior |-> Missing, new |-> <<>>]
NoPrev   == [normal |-> FALSE, pending |-> 0, all_ok |-> FALSE, truncated |-> FALSE,
             intr |-> NoCode, partial |-> FALSE]
HistIdle == [qc |-> {}, marked |-> {}, known |-> {}, intr |-> NoIntr,
             mark |-> NoMark, start_state |-> Missing, uncapped |-> <<>>,
             loaded |-> "", discovered |-> FALSE, sleep_intr |-> FALSE, prev |-> NoPrev]

\* The other programs, not started.
NoExitCode == 0 - 1
PoolIdle  == [pc |-> "none", root |-> TRUE, tree |-> {}, out |-> {}, tasks |-> <<>>,
              fut |-> <<>>, runs |-> <<>>, wrote |-> {}, counted |-> {},
              successes |-> 0, failures |-> 0, code |-> NoExitCode]
UpIdle    == [pc |-> "none", listing |-> <<>>, files |-> <<>>, uploaded |-> <<>>]
BatchIdle == [pc |-> "none", pngs |-> 0, imgs |-> 0, outcome |-> "", outputs |-> <<>>,
              i |-> 0, success |-> 0, fail |-> 0, counts |-> <<>>]
OthersIdle == pool = PoolIdle /\ up = UpIdle /\ batch = BatchIdle

(***************************************************************************)
(* retry_call.                                                             *)
(*   rc.pc: "idle" | "call" (about to invoke func) | "sleep" (in            *)
(*   time.sleep) | "returned" | "raised" | "interrupted"                    *)
(*   An exception raised by attempt k is <<"exc", k>>, the value returned   *)
(*   by attempt k is <<"ret", k>>.                                          *)
(***************************************************************************)
RcIdle ==
    [pc |-> "idle", attempts |-> 0, attempt |-> 0, delay |-> 0, last_exc |-> NoExc,
     sleep_for |-> 0, result |-> NoExc, raised |-> NoExc,
     calls |-> 0, sleeps |-> 0, outcomes |-> <<>>]

\* for attempt in range(1, attempts + 1): with attempts < 1 the body never runs
\* and "raise last_exc" raises None, a TypeError.
retry_call(config) ==
    IF config.attempts >= 1
    THEN [RcIdle EXCEPT !.pc = "call", !.attempts = config.attempts, !.attempt = 1,
                        !.delay = config.base_delay]
    ELSE [RcIdle EXCEPT !.pc = "raised", !.attempts = config.attempts,
                        !.raised = <<"TypeError", 0>>]

\* if attempt == attempts: break
retry_exhausted(r) == r.attempt = r.attempts

\* Fault: last_exc is set by the first failure only.
retry_keep_first_exc(r, e) == IF r.last_exc = NoExc THEN e ELSE r.last_exc

\* last_exc = e
retry_last_exc(r, e) == e

\* Fault: a bare except, which retries a KeyboardInterrupt like any failure.
retry_except_any(outcome) == "retry"

\* except KeyboardInterrupt: raise  /  except Exception as e: (retry)
retry_except(outcome) == IF outcome = "ki" THEN "reraise" ELSE "retry"

\* sleep_for = min(delay * jitter, RETRY_MAX_DELAY_S)
retry_sleep_for(r, jitter, config) == Min((r.delay * jitter) \div 10, config.max_delay)

\* delay = min(delay * 2, RETRY_MAX_DELAY_S)
retry_next_delay(r, config) == Min(r.delay * 2, config.max_delay)

\* A remote call that fails at all is one anomaly of the environment, however
\* often it fails.
FailureAnomalies(r, outcome) ==
    IF outcome = "exc" /\ "exc" \notin Range(r.outcomes) THEN 1 ELSE 0

\* One invocation of func inside the try of retry_call, and what the except
\* clauses do with its outcome.
retry_call_attempt ==
    /\ rc.pc = "call"
    /\ \E outcome \in {"ok", "exc", "ki"} :
        LET called == [rc EXCEPT !.calls = @ + 1, !.outcomes = Append(@, outcome)] IN
        /\ budget' = budget - FailureAnomalies(rc, outcome)
        /\ budget' >= 0
        /\ IF outcome = "ok"
           THEN rc' = [called EXCEPT !.pc = "returned", !.result = <<"ret", rc.attempt>>]
           ELSE IF retry_except(outcome) = "reraise"
           THEN rc' = [called EXCEPT !.pc = "interrupted"]
           ELSE LET e == retry_last_exc(rc, <<outcome, rc.attempt>>)
                    failed == [called EXCEPT !.last_exc = e] IN
                IF retry_exhausted(rc)
                THEN rc' = [failed EXCEPT !.pc = "raised", !.raised = e]
                ELSE \E jitter \in Jitters :
                        rc' = [failed EXCEPT !.pc = "sleep",
                                             !.sleep_for = retry_sleep_for(rc, jitter, cfg)]
    /\ UNCHANGED <<envVars, diskVars, ctlVars, loopVars>>

\* time.sleep(sleep_for) in the except clause, delay doubled, then the next
\* iteration of "for attempt in range(1, attempts + 1)"; when the range is used
\* up the loop falls through to "raise last_exc".
retry_after_sleep(r, config) ==
    LET slept == [r EXCEPT !.sleeps = @ + 1, !.sleep_for = 0,
                           !.delay = retry_next_delay(r, config)] IN
    IF r.attempt + 1 <= r.attempts
    THEN [slept EXCEPT !.pc = "call", !.attempt = @ + 1]
    ELSE [slept EXCEPT !.pc = "raised", !.raised = r.last_exc]

\* Fault: a KeyboardInterrupt raised in time.sleep is swallowed.
retry_sleep_swallows_interrupt(r, config) == retry_after_sleep(r, config)

\* A KeyboardInterrupt raised in time.sleep: the sleep is in the body of
\* "except Exception as e", no handler of retry_call is around it.
retry_sleep_interrupted(r, config) == [r EXCEPT !.pc = "interrupted"]

retry_call_sleep ==
    /\ rc.pc = "sleep"
    /\ \E ki \in BOOLEAN :
        IF ki
        THEN rc' = retry_sleep_interrupted(rc, cfg) /\ hist' = [hist EXCEPT !.sleep_intr = TRUE]
        ELSE rc' = retry_after_sleep(rc, cfg) /\ hist' = hist
    /\ UNCHANGED <<envVars, diskVars, pc, exit, sku, rec, loopVars, budget>>

(***************************************************************************)
(* JSON helpers.                                                           *)
(***************************************************************************)
\* load_json: the nanoBananGen version catches the parse error and returns the
\* default; the "Nano Banana Gen" version lets json.load raise.
load_json_raises(v, content) == v = "legacy" /\ content.kind = "corrupt"
load_json(content, default) == IF content.kind = "json" THEN content.val ELSE default

\* save_json in three steps, each giving <<file, file + ".tmp">>:
\* open(..., "w") truncates what it opens; json.dump and the close of the with
\* block fill it; os.replace(tmp, path) (nanoBananGen only) renames.
save_open(v, file, tmp)      == IF v = "atomic" THEN <<file, Corrupt>> ELSE <<Corrupt, tmp>>
save_dump(v, file, tmp, obj) == IF v = "atomic" THEN <<file, Json(obj)>> ELSE <<Json(obj), tmp>>
save_replace(file, tmp)      == <<tmp, Missing>>

\* Fault: the persisted list is not read.
completed_set_ignored(content) == {}

\* set(state.get("completed_skus", []))
completed_set(content) == Range(load_json(content, <<>>))

(***************************************************************************)
(* mime_to_ext.  A MIME type is known by the substrings the function tests. *)
(***************************************************************************)
Mimes == {"image/png", "image/jpeg", "image/webp", ""}

MimeContains(mime, token) ==
    \/ mime = "image/png"  /\ token = "png"
    \/ mime = "image/jpeg" /\ token = "jpeg"
    \/ mime = "image/webp" /\ token = "webp"

mime_to_ext(mime) ==
    IF mime = "" THEN ".png"
    ELSE IF MimeContains(mime, "webp") THEN ".webp"
    ELSE IF MimeContains(mime, "jpeg") \/ MimeContains(mime, "jpg") THEN ".jpg"
    ELSE IF MimeContains(mime, "png") THEN ".png"
    ELSE ".png"

(***************************************************************************)
(* Task discovery.                                                         *)
(***************************************************************************)
\* Fault: a filter that also drops the records that have no product_code.
pending_filter_keyed_only(data, comp) ==
    SelectSeq(data, LAMBDA item : item.product_code \notin comp /\ item.product_code # NoCode)

RECURSIVE pending_filter(_, _)
\* [item for item in data if item.get("product_code") not in completed]
pending_filter(data, comp) ==
    IF data = <<>> THEN <<>>
    ELSE LET item == Head(data)
             rest == pending_filter(Tail(data), comp)
         IN IF item.product_code \notin comp THEN <<item>> \o rest ELSE rest

\* Fault: --stop-after is parsed and not applied.
stop_after_ignored(p, n) == p

\* if args.stop_after and args.stop_after > 0: pending_items[: args.stop_after]
stop_after_cap(p, n) == IF n > 0 THEN SubSeq(p, 1, Min(n, Len(p))) ELSE p

(***************************************************************************)
(* Exceptions: which handler an exception raised at a site reaches.        *)
(*   sites: "main"  main, outside the try of the loop                       *)
(*          "h4"    main's "except Exception" clause                        *)
(*          "r0"    process_sku outside its try blocks (also its handlers)  *)
(*          "r1"    the try around upload_references                        *)
(*          "inner" the try around the first generate_one_image             *)
(*          "r3"    the try around the angle loop and mark_sku_complete     *)
(***************************************************************************)
\* main: except KeyboardInterrupt: ... break
main_on_interrupt == "break"

\* Fault: a bare except around the first generate_one_image.
inner_except_catches_all(e) == TRUE

\* process_sku: except Exception as gen_err (around the first generate_one_image)
inner_except_catches(e) == e # KI

Handler(site, e) ==
    LET fromR0 == IF e = KI THEN main_on_interrupt ELSE "H4"
        fromR3 == IF e = KI THEN fromR0 ELSE "H3"
    IN  CASE site = "inner" -> IF inner_except_catches(e) THEN "H2" ELSE fromR3
          [] site = "r3"    -> fromR3
          [] site = "r1"    -> IF e = KI THEN fromR0 ELSE "H1"
          [] site = "r0"    -> fromR0
          [] OTHER          -> "uncaught"

\* err_code of the journal entry written after the first failure of an angle
first_failure_code(e) ==
    IF e = "NoImageBytes" THEN "no_image_bytes" ELSE "gen_first_attempt_failed"

(***************************************************************************)
(* Control: every step sets pc, exit, sku, rec and hist through one of      *)
(* these.                                                                   *)
(***************************************************************************)
Goto(label, s, h) ==
    /\ pc' = label
    /\ exit' = exit
    /\ sku' = s
    /\ rec' = RecIdle
    /\ hist' = h

\* The process is gone: its locals with it.
EndRun(kind, h) ==
    /\ pc' = "idle"
    /\ exit' = kind
    /\ sku' = SkuIdle
    /\ rec' = RecIdle
    /\ hist' = h

\* append_error(entry) is about to run at `site`; `then` is what follows it.
Journal(entry, site, then, err, s, h) ==
    /\ pc' = "j_append"
    /\ exit' = exit
    /\ sku' = s
    /\ rec' = [RecIdle EXCEPT !.entry = entry, !.site = site, !.then = then, !.err = err]
    /\ hist' = h

\* Fault: main's except clause names no product.
LoopCodeUnknown == NoCode

\* code = item.get("product_code", "UNKNOWN") of the loop in main
LoopCode ==
    IF idx \in 1..Len(pending_items) THEN pending_items[idx].product_code ELSE NoCode

\* An exception e raised at site: the except clause it reaches, and that
\* clause up to its first journal write.
Throw(site, e, h) ==
    LET to   == Handler(site, e)
        hk   == IF e = KI
                THEN [h EXCEPT !.intr = [idx |-> idx, code |-> LoopCode, at |-> pc,
                                         partial |-> sku.done # {}]]
                ELSE h
        next == IF args.pause_on_error THEN "reraise" ELSE "return_false"
        \* except Exception as gen_err: the first generate_one_image of the angle
        \* has failed, after rc.calls invocations of _generate
        s2   == [sku EXCEPT !.first_err = e, !.gen_calls = rc.calls]
    IN  CASE to = "H1" ->
                Journal(<<sku.code, "upload", IF variant = "atomic" THEN "upload_failed" ELSE e>>,
                        "r0", next, e, sku, hk)
          [] to = "H2" ->
                IF variant = "atomic"
                THEN Journal(<<sku.code, Angles[sku.angle], first_failure_code(e)>>,
                             "r3", "gen_retry", e, s2, hk)
                ELSE Goto("ps_generate", [s2 EXCEPT !.gen_try = 2], hk)
          [] to = "H3" ->
                Journal(<<sku.code, "sku_run",
                          IF variant = "atomic" THEN "sku_run_exception" ELSE e>>,
                        "r0", next, e, sku, hk)
          [] to = "H4" ->
                IF variant = "atomic"
                THEN Journal(<<LoopCode, "run_loop", "fatal_run_stop">>, "h4", "break", e,
                             sku, hk)
                ELSE EndRun("stopped", hk)
          [] to = "break" -> EndRun("paused", hk)
          [] to = "continue" -> Goto("loop", SkuIdle, hk)
          [] OTHER -> EndRun(IF e = KI THEN "interrupt_uncaught" ELSE "crashed", hk)

\* Fault: the angle loop stops one angle early.
angles_left_skip_last(s) == s.angle < Len(Angles) - 1

\* for key, prompt in prompts.items(): is there another angle after this one
angles_left(s) == s.angle < Len(Angles)

\* The end of one iteration of the angle loop.
NextAngle(s, h) ==
    IF angles_left(s)
    THEN Goto("ps_generate", [s EXCEPT !.angle = @ + 1, !.gen_try = 1, !.first_err = "",
                                       !.gen_calls = 0, !.raw = NoRaw], h)
    ELSE Goto("ps_mark", s, h)

(***************************************************************************)
(* main.                                                                   *)
(***************************************************************************)
\* Positions of an interrupt inside process_sku at which mark_sku_complete has
\* not begun.
BeforeMark(at) ==
    at \notin {"", "load_prompts", "load_state", "discover", "loop",
               "ps_mark_dump", "ps_mark_replace", "ps_return_true"}

CliArgs == [pause_on_error : BOOLEAN, stop_after : 0..MaxStopAfter]

\* python imagen.py [--pause-on-error] [--stop-after N]
StartRun ==
    /\ pc = "idle"
    /\ run < MaxRuns
    /\ run' = run + 1
    /\ args' \in CliArgs
    /\ completed' = {}
    /\ pending_items' = <<>>
    /\ idx' = 0
    /\ processed_success' = 0
    /\ pc' = "load_prompts"
    /\ exit' = ""
    /\ sku' = SkuIdle
    /\ rec' = RecIdle
    /\ hist' = [HistIdle EXCEPT
                  !.start_state = stateFile,
                  !.prev = [normal |-> exit \in {"done", "nothing"},
                            pending |-> Len(pending_items),
                            all_ok |-> processed_success = Len(pending_items),
                            truncated |-> Len(hist.uncapped) > Len(pending_items),
                            intr |-> IF BeforeMark(hist.intr.at) THEN hist.intr.code
                                     ELSE NoCode,
                            partial |-> BeforeMark(hist.intr.at) /\ hist.intr.partial]]
    /\ files' = {}
    /\ UNCHANGED <<envVars, stateFile, stateTmp, errorFile, errorTmp, rc, budget>>

\* data = load_json(PROMPTS_FILE, []); if not data: ... return
main_load_prompts ==
    /\ pc = "load_prompts"
    /\ IF catalog = <<>>
       THEN IF variant = "atomic"
            THEN Journal(<<NoCode, "startup", "prompts_missing">>, "main", "exit", "", sku, hist)
            ELSE EndRun("startup_error", hist)
       ELSE Goto("load_state", sku, hist)
    /\ UNCHANGED <<envVars, diskVars, loopVars, rc, budget>>

\* completed = load_completed_skus()
load_completed_skus ==
    /\ pc = "load_state"
    /\ IF load_json_raises(variant, stateFile)
       THEN /\ Throw("main", "JSONDecodeError", [hist EXCEPT !.loaded = stateFile.kind])
            /\ UNCHANGED completed
       ELSE /\ completed' = completed_set(stateFile)
            /\ Goto("discover", sku, [hist EXCEPT !.loaded = stateFile.kind,
                                                  !.known = completed_set(stateFile)])
    /\ UNCHANGED <<envVars, diskVars, run, args, pending_items, idx, processed_success,
                   rc, budget>>

\* pending_items = [...]; if not pending_items: return; the --stop-after cap
main_discover ==
    /\ pc = "discover"
    /\ LET p == pending_filter(catalog, completed)
           h == [hist EXCEPT !.uncapped = p, !.discovered = TRUE] IN
       /\ pending_items' = stop_after_cap(p, args.stop_after)
       /\ IF p = <<>> THEN EndRun("nothing", h) ELSE Goto("loop", sku, h)
    /\ UNCHANGED <<envVars, diskVars, run, args, completed, idx, processed_success,
                   rc, budget>>

\* for idx, item in enumerate(pending_items, start=1): ... / the end of main
main_loop ==
    /\ pc = "loop"
    /\ IF idx < Len(pending_items)
       THEN idx' = idx + 1 /\ Goto("ps_start", SkuIdle, hist)
       ELSE idx' = idx /\ EndRun("done", hist)
    /\ UNCHANGED <<envVars, diskVars, run, args, completed, pending_items,
                   processed_success, rc, budget>>

(***************************************************************************)
(* process_sku.                                                            *)
(***************************************************************************)
\* code = item["product_code"]; folder = find_folder_for_code(code); the
\* missing-folder return; os.makedirs(out_dir)
process_sku_start ==
    /\ pc = "ps_start"
    /\ LET code == pending_items[idx].product_code
           s    == [SkuIdle EXCEPT !.code = code] IN
       \/ /\ code = NoCode
          /\ Throw("r0", "KeyError", hist)
          /\ UNCHANGED budget
       \/ /\ code # NoCode
          /\ budget > 0
          /\ budget' = budget - 1
          /\ Throw("r0", "OSError", hist)
       \/ /\ code # NoCode
          /\ folders[code] = NoFolder
          /\ Journal(<<code, "n/a", "reference_folder_missing">>, "r0", "return_false", "",
                     s, hist)
          /\ UNCHANGED budget
       \/ /\ code # NoCode
          /\ folders[code] # NoFolder
          /\ Goto("ps_upload", [s EXCEPT !.nrefs = folders[code]], hist)
          /\ UNCHANGED budget
    /\ UNCHANGED <<envVars, diskVars, loopVars, rc>>

\* Fault: the listing is uploaded whatever its size.
refs_count_unchecked(n) == TRUE

\* if len(image_files) == 0: raise ValueError / if len(image_files) >
\* MAX_REF_IMAGES: raise ValueError
refs_count_ok(n) == n # 0 /\ n <= MAX_REF_IMAGES

\* Fault: the upload loop stops after the first file.
uploads_left_never(s) == FALSE

\* for idx, p in enumerate(image_files, start=1): is there another file
uploads_left(s) == s.uploaded < s.nrefs

\* upload_references up to its first upload
upload_references ==
    /\ pc = "ps_upload"
    /\ IF ~refs_count_ok(sku.nrefs)
       THEN Throw("r1", "ValueError", hist) /\ UNCHANGED rc
       ELSE Goto("ps_upload_wait", sku, hist) /\ rc' = retry_call(cfg)
    /\ UNCHANGED <<envVars, diskVars, loopVars, budget>>

\* fobj = retry_call(_upload_single_file, path); uploaded.append(fobj); the
\* next file, or return uploaded
upload_references_loop ==
    /\ pc = "ps_upload_wait"
    /\ rc.pc \in {"returned", "raised", "interrupted"}
    /\ CASE rc.pc = "returned" ->
               LET s == [sku EXCEPT !.uploaded = @ + 1] IN
               IF uploads_left(s)
               THEN Goto("ps_upload_wait", s, hist) /\ rc' = retry_call(cfg)
               ELSE Goto("ps_prompts", s, hist) /\ rc' = RcIdle
         [] rc.pc = "raised" ->
               Throw("r1", rc.raised[1], hist) /\ rc' = RcIdle
         [] OTHER ->
               Throw("r1", KI, hist) /\ rc' = RcIdle
    /\ UNCHANGED <<envVars, diskVars, loopVars, budget>>

\* prompts = {"top": item["ecomm_prompts"]["top"], ...}
process_sku_prompts ==
    /\ pc = "ps_prompts"
    /\ IF pending_items[idx].has_prompts
       THEN Goto("ps_generate", [sku EXCEPT !.angle = 1, !.gen_try = 1], hist)
       ELSE Throw("r0", "KeyError", hist)
    /\ UNCHANGED <<envVars, diskVars, loopVars, rc, budget>>

\* Fault: the second generate_one_image is inside the inner try too.
GenSiteAlwaysInner == "inner"

\* Where generate_one_image is called from: the inner try (first call of the
\* angle) or the except clause of that try (second call).
GenSite == IF sku.gen_try = 1 THEN "inner" ELSE "r3"

\* generate_one_image up to resp = retry_call(_generate, MODEL, parts, cfg)
generate_one_image ==
    /\ pc = "ps_generate"
    /\ rc' = retry_call(cfg)
    /\ Goto("ps_generate_wait", sku, hist)
    /\ UNCHANGED <<envVars, diskVars, loopVars, budget>>

\* What the remote may answer: a nominal answer is a square PNG.
Responses == [image : BOOLEAN, mime : Mimes, square : BOOLEAN]
ResponseAnomalies(r) ==
    IF ~r.image THEN 1
    ELSE (IF r.mime # "image/png" THEN 1 ELSE 0) + (IF r.square THEN 0 ELSE 1)

\* generate_one_image from the response on: the inline image, or RuntimeError
generate_one_image_result ==
    /\ pc = "ps_generate_wait"
    /\ rc.pc \in {"returned", "raised", "interrupted"}
    /\ rc' = RcIdle
    /\ CASE rc.pc = "returned" ->
               \E r \in Responses :
                   /\ ~r.image => (r.mime = "" /\ r.square)
                   /\ ResponseAnomalies(r) <= budget
                   /\ budget' = budget - ResponseAnomalies(r)
                   /\ IF r.image
                      THEN Goto("ps_write",
                                [sku EXCEPT !.raw = [mime |-> r.mime, square |-> r.square]],
                                hist)
                      ELSE Throw(GenSite, "NoImageBytes", hist)
         [] rc.pc = "raised" ->
               Throw(GenSite, rc.raised[1], hist) /\ UNCHANGED budget
         [] OTHER ->
               Throw(GenSite, KI, hist) /\ UNCHANGED budget
    /\ UNCHANGED <<envVars, diskVars, loopVars>>

\* ext = mime_to_ext(mime); with open(raw_path, "wb") as f: f.write(raw_bytes)
process_sku_write ==
    /\ pc = "ps_write"
    /\ \/ /\ files' = files \cup {<<sku.code, Angles[sku.angle], mime_to_ext(sku.raw.mime)>>}
          /\ Goto("ps_qc", [sku EXCEPT !.done = @ \cup {sku.angle}], hist)
          /\ UNCHANGED budget
       \/ /\ budget > 0
          /\ budget' = budget - 1
          /\ Throw("r3", "OSError", hist)
          /\ UNCHANGED files
    /\ UNCHANGED <<envVars, stateFile, stateTmp, errorFile, errorTmp, loopVars, rc>>

\* img = Image.open(BytesIO(raw_bytes)); if not is_square(img): append_error(...)
process_sku_qc ==
    /\ pc = "ps_qc"
    /\ \/ /\ budget > 0
          /\ budget' = budget - 1
          /\ Throw("r3", "UnidentifiedImageError", hist)
       \/ /\ sku.raw.square
          /\ NextAngle(sku, [hist EXCEPT !.qc = @ \cup {<<sku.code, Angles[sku.angle], "pass">>}])
          /\ UNCHANGED budget
       \/ /\ ~sku.raw.square
          /\ Journal(<<sku.code, Angles[sku.angle], "not_square">>, "r3", "qc", "", sku, hist)
          /\ UNCHANGED budget
    /\ UNCHANGED <<envVars, diskVars, loopVars, rc>>

\* Fault: the new list holds the marked code alone.
mark_new_state_only(content, c) == <<c>>

\* comps = set(state.get("completed_skus", [])); comps.add(product_code);
\* state["completed_skus"] = sorted(list(comps))
mark_new_state(content, c) == SortedSeq(completed_set(content) \cup {c})

\* mark_sku_complete: load_json, comps.add(product_code), sorted, and the
\* open(..., "w") of save_json
mark_sku_complete ==
    /\ pc = "ps_mark"
    /\ IF load_json_raises(variant, stateFile)
       THEN /\ Throw("r3", "JSONDecodeError", hist)
            /\ UNCHANGED <<stateFile, stateTmp>>
       ELSE LET new  == mark_new_state(stateFile, sku.code)
                open == save_open(variant, stateFile, stateTmp) IN
            /\ stateFile' = open[1]
            /\ stateTmp' = open[2]
            /\ Goto("ps_mark_dump", [sku EXCEPT !.new_state = new],
                    [hist EXCEPT !.mark = [in |-> TRUE, prior |-> stateFile, new |-> new]])
    /\ UNCHANGED <<envVars, errorFile, errorTmp, files, loopVars, rc, budget>>

\* The state file holds the new list: process_sku is about to return True.
Marked(h) ==
    [h EXCEPT !.marked = @ \cup {sku.code}, !.known = @ \cup {sku.code}]

\* save_json(STATE_FILE, state): json.dump(obj, f, indent=2) and the close
mark_sku_complete_dump ==
    /\ pc = "ps_mark_dump"
    /\ LET dump == save_dump(variant, stateFile, stateTmp, sku.new_state) IN
       /\ stateFile' = dump[1]
       /\ stateTmp' = dump[2]
       /\ IF variant = "atomic"
          THEN Goto("ps_mark_replace", sku, hist)
          ELSE Goto("ps_return_true", sku, Marked(hist))
    /\ UNCHANGED <<envVars, errorFile, errorTmp, files, loopVars, rc, budget>>

\* save_json(STATE_FILE, state): os.replace(tmp, path)
mark_sku_complete_replace ==
    /\ pc = "ps_mark_replace"
    /\ LET repl == save_replace(stateFile, stateTmp) IN
       /\ stateFile' = repl[1]
       /\ stateTmp' = repl[2]
    /\ Goto("ps_return_true", sku, Marked(hist))
    /\ UNCHANGED <<envVars, errorFile, errorTmp, files, loopVars, rc, budget>>

\* return True; in main: if ok: processed_success += 1
process_sku_return_true ==
    /\ pc = "ps_return_true"
    /\ processed_success' = processed_success + 1
    /\ Goto("loop", SkuIdle, [hist EXCEPT !.mark = NoMark])
    /\ UNCHANGED <<envVars, diskVars, run, args, completed, pending_items, idx, rc, budget>>

(***************************************************************************)
(* The error journal: append_error, in the steps of load_json and save_json,*)
(* and what follows it in record_and_notify_error and its other callers.    *)
(***************************************************************************)
\* data = load_json(ERROR_FILE, {"errors": []}); data["errors"].append(entry);
\* the open(..., "w") of save_json
append_error ==
    /\ pc = "j_append"
    /\ IF load_json_raises(variant, errorFile)
       THEN /\ Throw(rec.site, "JSONDecodeError", hist)
            /\ UNCHANGED <<errorFile, errorTmp>>
       ELSE LET open == save_open(variant, errorFile, errorTmp) IN
            /\ errorFile' = open[1]
            /\ errorTmp' = open[2]
            /\ pc' = "j_dump"
            /\ rec' = [rec EXCEPT !.obj = Append(load_json(errorFile, <<>>), rec.entry)]
            /\ UNCHANGED <<exit, sku, hist>>
    /\ UNCHANGED <<envVars, stateFile, stateTmp, files, loopVars, rc, budget>>

\* save_json(ERROR_FILE, data): json.dump and the close
append_error_dump ==
    /\ pc = "j_dump"
    /\ LET dump == save_dump(variant, errorFile, errorTmp, rec.obj) IN
       /\ errorFile' = dump[1]
       /\ errorTmp' = dump[2]
    /\ pc' = IF variant = "atomic" THEN "j_replace" ELSE "j_done"
    /\ UNCHANGED <<exit, sku, rec, hist>>
    /\ UNCHANGED <<envVars, stateFile, stateTmp, files, loopVars, rc, budget>>

\* save_json(ERROR_FILE, data): os.replace(tmp, path)
append_error_replace ==
    /\ pc = "j_replace"
    /\ LET repl == save_replace(errorFile, errorTmp) IN
       /\ errorFile' = repl[1]
       /\ errorTmp' = repl[2]
    /\ pc' = "j_done"
    /\ UNCHANGED <<exit, sku, rec, hist>>
    /\ UNCHANGED <<envVars, stateFile, stateTmp, files, loopVars, rc, budget>>

\* Fault: a failed square check never stops the SKU.
qc_never_escalates(a) == FALSE

\* if pause_on_error: raise RuntimeError(msg)   (after the not_square entry)
qc_escalates(a) == a.pause_on_error

\* After append_error: notify / send_email (no state of its own), then
\*   "return_false"  return False from process_sku
\*   "reraise"       record_and_notify_error: if pause_on_error: raise err
\*   "gen_retry"     the second generate_one_image of the angle
\*   "qc"            if pause_on_error: raise RuntimeError(msg), else the next angle
\*   "break"         main's except Exception: break
\*   "exit"          main's return after the startup error
after_append_error ==
    /\ pc = "j_done"
    /\ CASE rec.then = "return_false" -> Goto("loop", SkuIdle, hist)
         [] rec.then = "reraise"      -> Throw(rec.site, rec.err, hist)
         [] rec.then = "gen_retry"    -> Goto("ps_generate", [sku EXCEPT !.gen_try = 2], hist)
         [] rec.then = "qc"           ->
               IF qc_escalates(args)
               THEN Throw("r3", "RuntimeError", hist)
               ELSE NextAngle(sku, [hist EXCEPT !.qc = @ \cup
                                       {<<sku.code, Angles[sku.angle], "tolerated">>}])
         [] rec.then = "break"        -> EndRun("stopped", hist)
         [] OTHER                     -> EndRun("startup_error", hist)
    /\ UNCHANGED <<envVars, diskVars, loopVars, rc, budget>>

(***************************************************************************)
(* Ctrl+C and kill.                                                        *)
(***************************************************************************)
\* The try block the process is in.
SiteOf ==
    CASE pc \in {"load_prompts", "load_state", "discover", "loop"} -> "main"
      [] pc \in {"ps_start", "ps_prompts", "ps_return_true"} -> "r0"
      [] pc \in {"ps_upload", "ps_upload_wait"} -> "r1"
      [] pc \in {"ps_generate", "ps_generate_wait"} -> GenSite
      [] pc \in {"j_append", "j_dump", "j_replace", "j_done"} -> rec.site
      [] OTHER -> "r3"

\* SIGINT outside retry_call (retry_call_attempt and retry_call_sleep have
\* their own): signal.signal(SIGINT, ... throw(KeyboardInterrupt()))
Interrupt ==
    /\ pc # "idle"
    /\ rc.pc = "idle"
    /\ Throw(SiteOf, KI, hist)
    /\ UNCHANGED <<envVars, diskVars, loopVars, rc, budget>>

\* SIGKILL, power loss: nothing of the process is left, only the disk (of the
\* history, what the write in progress was).
Kill ==
    /\ pc # "idle"
    /\ EndRun("killed", [HistIdle EXCEPT !.start_state = hist.start_state,
                                        !.mark = hist.mark,
                                        !.prev = hist.prev])
    /\ rc' = RcIdle
    /\ completed' = {}
    /\ pending_items' = <<>>
    /\ idx' = 0
    /\ processed_success' = 0
    /\ UNCHANGED <<envVars, diskVars, run, args, budget>>

(***************************************************************************)
(* The runs of imagen.py.                                                  *)
(***************************************************************************)
CatalogCodes(cat) == {cat[i].product_code : i \in DOMAIN cat} \ {NoCode}

\* product_code is the unique key of the catalog.
UniqueKeys(cat) ==
    \A i, j \in DOMAIN cat :
        (cat[i].product_code = cat[j].product_code /\ cat[i].product_code # NoCode) => i = j

\* Departures of the initial environment from the nominal one (well-formed
\* records, 1..MAX_REF_IMAGES references each, readable JSON files).
StaticAnomalies(cat, fold, sf, ef) ==
      Cardinality({i \in DOMAIN cat : cat[i].product_code = NoCode})
    + Cardinality({i \in DOMAIN cat : ~cat[i].has_prompts})
    + Cardinality({c \in Codes : fold[c] \notin 1..MAX_REF_IMAGES})
    + (IF cat = <<>> THEN 1 ELSE 0)
    + (IF sf = Corrupt THEN 1 ELSE 0)
    + (IF ef = Corrupt THEN 1 ELSE 0)

IdleProcess ==
    /\ run = 0
    /\ args = ArgsNone
    /\ pc = "idle"
    /\ exit = ""
    /\ completed = {}
    /\ pending_items = <<>>
    /\ idx = 0
    /\ processed_success = 0
    /\ sku = SkuIdle
    /\ rec = RecIdle
    /\ rc = RcIdle
    /\ hist = HistIdle
    /\ OthersIdle

Init ==
    /\ variant \in {"atomic", "legacy"}
    /\ cfg = [attempts |-> RETRY_MAX_ATTEMPTS, base_delay |-> RETRY_BASE_DELAY_S,
              max_delay |-> RETRY_MAX_DELAY_S]
    /\ catalog \in Catalogs(MaxCatalog)
    /\ UniqueKeys(catalog)
    /\ folders \in [Codes -> {NoFolder, 0, MAX_REF_IMAGES + 1} \cup 1..MaxRefs]
    /\ \A c \in Codes \ CatalogCodes(catalog) : folders[c] = 1
    /\ stateFile \in {Missing, Corrupt} \cup {Json(SortedSeq(S)) : S \in SUBSET Codes}
    /\ errorFile \in {Missing, Corrupt}
    /\ stateTmp = Missing
    /\ errorTmp = Missing
    /\ files = {}
    /\ StaticAnomalies(catalog, folders, stateFile, errorFile) <= MaxAnomalies
    /\ budget = MaxAnomalies - StaticAnomalies(catalog, folders, stateFile, errorFile)
    /\ IdleProcess

Next ==
    \/ StartRun
    \/ main_load_prompts
    \/ load_completed_skus
    \/ main_discover
    \/ main_loop
    \/ process_sku_start
    \/ upload_references
    \/ upload_references_loop
    \/ process_sku_prompts
    \/ generate_one_image
    \/ generate_one_image_result
    \/ process_sku_write
    \/ process_sku_qc
    \/ mark_sku_complete
    \/ mark_sku_complete_dump
    \/ mark_sku_complete_replace
    \/ process_sku_return_true
    \/ append_error
    \/ append_error_dump
    \/ append_error_replace
    \/ after_append_error
    \/ retry_call_attempt
    \/ retry_call_sleep
    \/ Interrupt
    \/ Kill

Spec == Init /\ [][Next]_vars

\* The current run wrote a raw file for every angle of c.
AllAnglesWritten(c) ==
    \A i \in DOMAIN Angles :
        \E ext \in {mime_to_ext(m) : m \in Mimes} : <<c, Angles[i], ext>> \in files

\* Every angle of c passed the square check, or failed it with
\* pause_on_error unset.
AllAnglesChecked(c) ==
    \A i \in DOMAIN Angles :
        \/ <<c, Angles[i], "pass">> \in hist.qc
        \/ <<c, Angles[i], "tolerated">> \in hist.qc /\ ~args.pause_on_error

InMark == pc \in {"ps_mark", "ps_mark_dump", "ps_mark_replace", "ps_return_true"}

\* C1: a product_code the run has added to completed_skus has had all four
\* angles generated and written to a raw file, each angle passing the square
\* check or failing it with pause_on_error unset; mark_sku_complete is never
\* called for a SKU of which only some angles succeeded.
C1_CompletionIsAllOrNothing ==
    /\ \A c \in hist.marked : AllAnglesWritten(c) /\ AllAnglesChecked(c)
    /\ InMark => /\ sku.done = DOMAIN Angles
                 /\ AllAnglesWritten(sku.code)
                 /\ AllAnglesChecked(sku.code)
    /\ run >= 1 =>
          \A c \in completed_set(stateFile) \ completed_set(hist.start_state) :
              AllAnglesWritten(c)

C1_Witness ==
    /\ pc = "idle"
    /\ exit = "done"
    /\ hist.marked = {1, 2}
    /\ <<2, "front_45", "tolerated">> \in hist.qc
    /\ <<2, "front_45", ".png">> \in files

\* C4: when a KeyboardInterrupt is raised in process_sku before
\* mark_sku_complete has begun for the SKU, nothing more is done for the SKU
\* in that run and its product_code is not in completed_skus when the run
\* ends; the next run has it in its pending list, generates its angles from
\* the first one on, and does not mark it complete before it has written all
\* four again.
C4_InterruptedSkuIsRedone ==
    /\ (BeforeMark(hist.intr.at) /\ hist.intr.code # NoCode) =>
          /\ pc = "idle"
          /\ hist.intr.code \notin completed_set(stateFile)
    /\ hist.prev.intr # NoCode =>
          /\ hist.discovered =>
                \E i \in DOMAIN hist.uncapped :
                    hist.uncapped[i].product_code = hist.prev.intr
          /\ sku.code = hist.prev.intr =>
                \A a \in 1..(sku.angle - 1) :
                    \E ext \in {mime_to_ext(m) : m \in Mimes} :
                        <<sku.code, Angles[a], ext>> \in files
          /\ hist.prev.intr \in hist.marked => AllAnglesWritten(hist.prev.intr)

C4_Witness ==
    /\ run = 2
    /\ hist.prev.intr = 1
    /\ hist.prev.partial
    /\ 1 \in hist.marked
    /\ pc = "idle"
    /\ exit = "done"

\* C5: after a KeyboardInterrupt while main is processing a pending SKU the
\* run loop has exited (no later SKU is started), and every product_code the
\* run had loaded or persisted as completed is still in completed_skus.
C5_InterruptKeepsCompleted ==
    hist.intr.at # "" =>
        /\ pc = "idle"
        /\ hist.known \subseteq completed_set(stateFile)

\* C7: a run that follows a run which ended by itself, with every SKU of its
\* pending list completed and that list not cut by --stop-after, finds nothing
\* pending, processes nothing and leaves the state file as it found it.
C7_SecondRunIsNoOp ==
    (run >= 2 /\ hist.prev.normal /\ hist.prev.all_ok /\ ~hist.prev.truncated) =>
        /\ hist.uncapped = <<>>
        /\ pending_items = <<>>
        /\ idx = 0
        /\ files = {}
        /\ stateFile = hist.start_state
        /\ hist.discovered => exit = "nothing"

C7_Witness ==
    /\ run = 2
    /\ hist.prev.normal
    /\ hist.prev.all_ok
    /\ ~hist.prev.truncated
    /\ hist.prev.pending = 2
    /\ hist.discovered
    /\ pc = "idle"
    /\ stateFile = Json(<<1, 2>>)

\* C7 as stated: a run that follows a run which ended by itself, in an
\* environment with no failure of any kind in either run, finds nothing
\* pending, processes nothing and leaves the state file as it found it.
C7_SecondRunIsNoOp_AsStated ==
    (run >= 2 /\ hist.prev.normal /\ budget = MaxAnomalies) =>
        /\ hist.uncapped = <<>>
        /\ pending_items = <<>>
        /\ idx = 0
        /\ files = {}
        /\ stateFile = hist.start_state
        /\ hist.discovered => exit = "nothing"

\* C8: in both variants, after the process is killed inside
\* mark_sku_complete the state file holds the complete prior content or the
\* complete new content.
C8_StateFileWholeAfterKill ==
    (pc = "idle" /\ exit = "killed" /\ hist.mark.in) =>
        stateFile \in {hist.mark.prior, Json(hist.mark.new)}

\* C9: in both variants, loading the completion state from a missing or
\* corrupt state file raises nothing and gives the empty set, and the run goes
\* on with every catalog item pending.
C9_LoadToleratesBadStateFile ==
    hist.loaded \in {"missing", "corrupt"} =>
        /\ exit # "crashed"
        /\ completed = {}
        /\ hist.discovered => Len(hist.uncapped) = Len(catalog)

\* C10: with pause_on_error unset and no interrupt, a run that ends by itself
\* has attempted every item of its pending list.
C10_EveryPendingItemAttempted ==
    (pc = "idle" /\ exit \in {"done", "stopped"} /\ ~args.pause_on_error
        /\ hist.intr.at = "") =>
        idx = Len(pending_items)

(***************************************************************************)
(* retry_call on its own: one call under every retry policy.               *)
(***************************************************************************)
RetryConfigs ==
    [attempts : 0..MaxAttemptsCfg, base_delay : {10, RETRY_BASE_DELAY_S},
     max_delay : {50, RETRY_MAX_DELAY_S}]

NoProcess ==
    /\ variant = "atomic"
    /\ catalog = <<>>
    /\ folders = <<>>
    /\ stateFile = Missing /\ stateTmp = Missing /\ errorFile = Missing /\ errorTmp = Missing
    /\ files = {}
    /\ run = 0
    /\ args = ArgsNone
    /\ pc = "idle"
    /\ exit = ""
    /\ completed = {}
    /\ pending_items = <<>>
    /\ idx = 0
    /\ processed_success = 0
    /\ sku = SkuIdle
    /\ rec = RecIdle
    /\ hist = HistIdle
    /\ OthersIdle

InitRetry ==
    /\ NoProcess
    /\ cfg \in RetryConfigs
    /\ rc = retry_call(cfg)
    /\ budget = cfg.attempts

NextRetry == retry_call_attempt \/ retry_call_sleep

SpecRetry == InitRetry /\ [][NextRetry]_vars

\* C2: one call of retry_call invokes the callable at most `attempts` times
\* (RETRY_MAX_ATTEMPTS unless the caller says otherwise); a KeyboardInterrupt
\* of the callable is the last thing that happens in the call: it is re-raised
\* at once, with no further invocation and no sleep after it.
C2_RetryBoundAndInterrupt ==
    /\ rc.calls <= rc.attempts
    /\ rc.calls = Len(rc.outcomes)
    /\ \A i \in DOMAIN rc.outcomes :
          rc.outcomes[i] = "ki" =>
              /\ i = Len(rc.outcomes)
              /\ rc.pc = "interrupted"
              /\ rc.sleeps = i - 1
              /\ rc.last_exc \in {NoExc, <<"exc", i - 1>>}

C2_Witness ==
    /\ rc.attempts = RETRY_MAX_ATTEMPTS
    /\ rc.pc = "interrupted"
    /\ rc.outcomes = <<"exc", "exc", "ki">>

\* C3: with attempts >= 1, when every attempt raises a non-interrupt exception
\* retry_call raises the exception of the final attempt, after `attempts`
\* invocations; when attempt k is the first to succeed, retry_call returns the
\* result of attempt k after exactly k invocations.
C3_LastExceptionOrFirstSuccess ==
    rc.attempts >= 1 =>
        /\ rc.pc = "raised" =>
              /\ rc.calls = rc.attempts
              /\ \A i \in DOMAIN rc.outcomes : rc.outcomes[i] = "exc"
              /\ rc.raised = <<"exc", rc.attempts>>
        /\ rc.pc = "returned" =>
              LET k == Len(rc.outcomes) IN
              /\ k >= 1
              /\ rc.outcomes[k] = "ok"
              /\ \A i \in 1..(k - 1) : rc.outcomes[i] = "exc"
              /\ rc.calls = k
              /\ rc.result = <<"ret", k>>
        /\ (\E i \in DOMAIN rc.outcomes : rc.outcomes[i] = "ok") => rc.pc = "returned"
        /\ (Len(rc.outcomes) = rc.attempts /\ \A i \in DOMAIN rc.outcomes : rc.outcomes[i] = "exc")
              => rc.pc = "raised"

C3_Witness ==
    /\ rc.attempts = RETRY_MAX_ATTEMPTS
    /\ rc.pc = "raised"
    /\ rc.calls = RETRY_MAX_ATTEMPTS
    /\ rc.raised = <<"exc", RETRY_MAX_ATTEMPTS>>

\* C17: for every configuration and every jitter j, the sleep after failed
\* attempt k (1 <= k < attempts) is min(base_delay * 2^(k-1) * j, max_delay);
\* it never exceeds max_delay, and no sleep follows the final attempt.
C17_SleepIsCappedJitteredBackoff ==
    /\ rc.pc = "sleep" =>
           /\ rc.attempt >= 1 /\ rc.attempt < rc.attempts
           /\ rc.sleep_for <= cfg.max_delay
           /\ rc.sleep_for \in
                 {Min((cfg.base_delay * 2^(rc.attempt - 1) * j) \div 10, cfg.max_delay) :
                     j \in Jitters}
    /\ rc.sleeps <= rc.attempt - 1 \/ rc.calls = 0

(***************************************************************************)
(* Task discovery on its own: every catalog against every state file.      *)
(***************************************************************************)
StateFiles == {Missing, Corrupt} \cup {Json(SortedSeq(S)) : S \in SUBSET Codes}

InitPending ==
    /\ variant \in {"atomic", "legacy"}
    /\ cfg = [attempts |-> RETRY_MAX_ATTEMPTS, base_delay |-> RETRY_BASE_DELAY_S,
              max_delay |-> RETRY_MAX_DELAY_S]
    /\ catalog \in Catalogs(MaxPending)
    /\ folders = [c \in Codes |-> 1]
    /\ stateFile \in StateFiles
    /\ stateTmp = Missing
    /\ errorFile = Missing
    /\ errorTmp = Missing
    /\ files = {}
    /\ run = 1
    /\ args \in CliArgs
    /\ pc = "load_state"
    /\ exit = ""
    /\ completed = {}
    /\ pending_items = <<>>
    /\ idx = 0
    /\ processed_success = 0
    /\ sku = SkuIdle
    /\ rec = RecIdle
    /\ rc = RcIdle
    /\ budget = 0
    /\ hist = [HistIdle EXCEPT !.start_state = stateFile]
    /\ OthersIdle

NextPending == load_completed_skus \/ main_discover

SpecPending == InitPending /\ [][NextPending]_vars

\* p is C with exactly the records whose product_code is in S taken out.
IsOrderedFilter(p, C, S) ==
    \E f \in [1..Len(p) -> DOMAIN C] :
        /\ \A i, j \in 1..Len(p) : i < j => f[i] < f[j]
        /\ \A i \in 1..Len(p) : p[i] = C[f[i]]
        /\ {f[i] : i \in 1..Len(p)} = {k \in DOMAIN C : C[k].product_code \notin S}

\* C6: the pending list main computes from catalog C and completion state S is
\* the subsequence of C of the records whose product_code is not in
\* S.completed_skus, in catalog order: nothing completed is in it, nothing
\* uncompleted is missing from it.  (Without --stop-after it is the list the
\* loop runs over.)
C6_PendingIsOrderedFilter ==
    hist.discovered =>
        /\ IsOrderedFilter(hist.uncapped, catalog, Range(load_json(stateFile, <<>>)))
        /\ args.stop_after = 0 => pending_items = hist.uncapped

C6_Witness ==
    /\ hist.discovered
    /\ Len(catalog) = 3
    /\ catalog[1].product_code = NoCode
    /\ catalog[2].product_code \in completed
    /\ catalog[3].product_code \in Codes \ completed
    /\ Len(hist.uncapped) = 2

(***************************************************************************)
(* One run of main from every initial environment.                         *)
(***************************************************************************)
InitRun ==
    /\ variant \in {"atomic", "legacy"}
    /\ cfg = [attempts |-> RETRY_MAX_ATTEMPTS, base_delay |-> RETRY_BASE_DELAY_S,
              max_delay |-> RETRY_MAX_DELAY_S]
    /\ catalog \in Catalogs(MaxCatalog)
    /\ UniqueKeys(catalog)
    /\ folders \in [Codes -> {NoFolder, 0, MAX_REF_IMAGES + 1} \cup 1..MaxRefs]
    /\ \A c \in Codes \ CatalogCodes(catalog) : folders[c] = 1
    /\ stateFile \in StateFiles
    /\ errorFile \in {Missing, Corrupt}
    /\ stateTmp = Missing
    /\ errorTmp = Missing
    /\ files = {}
    /\ StaticAnomalies(catalog, folders, stateFile, errorFile) <= MaxAnomalies
    /\ budget = MaxAnomalies - StaticAnomalies(catalog, folders, stateFile, errorFile)
    /\ IdleProcess

\* The first invocation of the program and nothing after its end.
FirstRun == run = 0 /\ StartRun

NextRun ==
    \/ FirstRun
    \/ main_load_prompts
    \/ load_completed_skus
    \/ main_discover
    \/ main_loop
    \/ process_sku_start
    \/ upload_references
    \/ upload_references_loop
    \/ process_sku_prompts
    \/ generate_one_image
    \/ generate_one_image_result
    \/ process_sku_write
    \/ process_sku_qc
    \/ mark_sku_complete
    \/ mark_sku_complete_dump
    \/ mark_sku_complete_replace
    \/ process_sku_return_true
    \/ append_error
    \/ append_error_dump
    \/ append_error_replace
    \/ after_append_error
    \/ retry_call_attempt
    \/ retry_call_sleep
    \/ Interrupt
    \/ Kill

SpecRun == InitRun /\ [][NextRun]_vars

\* C11: with --pause-on-error set, the first SKU failure of any kind stops
\* the whole run at once: no SKU is started after a SKU that has failed.
C11_PauseStopsRunAtFirstFailure ==
    (args.pause_on_error /\ pc = "ps_start") => processed_success = idx - 1

\* if __name__ == "__main__": main() -- the exit status of the interpreter:
\* 0 when main returns (no sys.exit anywhere in the file), 1 on an uncaught
\* exception, 130 on an uncaught KeyboardInterrupt, 137 when killed.
exit_code(outcome) ==
    CASE outcome = "crashed"            -> 1
      [] outcome = "interrupt_uncaught" -> 130
      [] outcome = "killed"             -> 137
      [] OTHER                          -> 0

\* The run has ended by itself after process_sku returned False ("done", the
\* list exhausted) or raised ("stopped", the break of main's except Exception).
SkuFailed == exit \in {"done", "stopped"} /\ processed_success < idx

\* C12: the exit code of a run is 0 when the run completed without an
\* unrecoverable error, and nonzero when a SKU failed or the catalog was
\* missing or empty at startup.
C12_ExitCodeReflectsFailures ==
    (pc = "idle" /\ run >= 1) =>
        /\ (exit \in {"done", "nothing"} /\ processed_success = idx) => exit_code(exit) = 0
        /\ (exit = "startup_error" \/ SkuFailed) => exit_code(exit) # 0

\* The reference folder of c holds no JPG, or more than MAX_REF_IMAGES.
BadRefs(c) == folders[c] = 0 \/ folders[c] > MAX_REF_IMAGES

\* C13: for a SKU whose reference folder holds more than MAX_REF_IMAGES
\* images (or none), upload_references fails before any remote upload is
\* invoked and without retry, no generate is invoked for the SKU, and the
\* SKU is not added to completed_skus.
C13_BadReferenceCountFailsEarly ==
    /\ (sku.code # NoCode /\ BadRefs(sku.code)) =>
            /\ rc = RcIdle
            /\ sku.uploaded = 0
            /\ sku.angle = 0
            /\ ~InMark
    /\ \A c \in Codes :
           BadRefs(c) => /\ c \notin hist.marked
                         /\ \A f \in files : f[1] # c

C13_Witness ==
    /\ pc = "j_done"
    /\ rec.entry[1] = sku.code
    /\ rec.entry[2] = "upload"
    /\ rec.err = "ValueError"
    /\ sku.nrefs = MAX_REF_IMAGES + 1
    /\ sku.uploaded = 0

\* C15: with --stop-after N > 0 the run goes through the first
\* min(N, |pending|) items of the pending list, in order, and no others; with
\* N = 0 it goes through the whole pending list; the pending list that is cut
\* is the catalog without the completed SKUs.
C15_StopAfterCapsPendingList ==
    hist.discovered =>
        LET p == hist.uncapped
            n == args.stop_after
            k == IF n > 0 THEN Min(n, Len(p)) ELSE Len(p)
        IN  /\ IsOrderedFilter(p, catalog, completed)
            /\ Len(pending_items) = k
            /\ \A i \in 1..k : pending_items[i] = p[i]
            /\ idx <= k
            /\ exit = "done" => idx = k

C15_Witness ==
    /\ hist.discovered
    /\ exit = "done"
    /\ args.stop_after = 1
    /\ Len(hist.uncapped) = 2
    /\ pending_items = <<catalog[1]>>
    /\ idx = 1
    /\ hist.marked = {catalog[1].product_code}

(***************************************************************************)
(* One run of main over one well-formed SKU whose reference folder holds   *)
(* 1..MaxSkuRefs images, with up to MaxSkuAnomalies failing remote calls.  *)
(***************************************************************************)
MaxSkuRefs == 2
MaxSkuAnomalies == 2

InitSku ==
    /\ variant \in {"atomic", "legacy"}
    /\ cfg = [attempts |-> RETRY_MAX_ATTEMPTS, base_delay |-> RETRY_BASE_DELAY_S,
              max_delay |-> RETRY_MAX_DELAY_S]
    /\ catalog = <<[product_code |-> 1, has_prompts |-> TRUE]>>
    /\ folders \in [Codes -> 1..MaxSkuRefs]
    /\ \A c \in Codes \ CatalogCodes(catalog) : folders[c] = 1
    /\ stateFile = Missing
    /\ errorFile = Missing
    /\ stateTmp = Missing
    /\ errorTmp = Missing
    /\ files = {}
    /\ budget = MaxSkuAnomalies
    /\ IdleProcess

SpecSku == InitSku /\ [][NextRun]_vars

\* The entries of the error journal that name product_code c and prompt key.
JournalEntries(c, key) ==
    LET j == load_json(errorFile, <<>>) IN
    {i \in DOMAIN j : j[i][1] = c /\ j[i][2] = key}

\* process_sku is about to return False, pause_on_error unset, because both
\* generate_one_image calls of the current angle raised after their retries.
AngleFailedForGood ==
    /\ pc = "j_done"
    /\ rec.then = "return_false"
    /\ rec.entry[2] = "sku_run"
    /\ rec.err = "exc"
    /\ sku.first_err = "exc"
    /\ ~args.pause_on_error

\* C14: when generate for one angle of a SKU fails on every attempt
\* (pause_on_error unset) and every other remote call succeeds, the SKU is not
\* in completed_skus and the error journal holds exactly one entry naming
\* that (product_code, angle) pair.
C14_OneJournalEntryForFailedAngle ==
    AngleFailedForGood =>
        /\ sku.code \notin completed_set(stateFile)
        /\ Cardinality(JournalEntries(sku.code, Angles[sku.angle])) = 1

\* C16: retry_call is the only place where a failed remote operation is
\* attempted again: while a SKU is processed, _generate is invoked at most
\* RETRY_MAX_ATTEMPTS times for one angle, and process_sku does not call
\* generate_one_image again for an angle after it has failed.
C16_RetryWrapperIsOnlyRetry ==
    pc \in {"ps_generate", "ps_generate_wait"} =>
        /\ sku.gen_calls + rc.calls <= RETRY_MAX_ATTEMPTS
        /\ sku.gen_try = 1

\* C18: a KeyboardInterrupt raised while retry_call sleeps between two
\* attempts leaves retry_call as the interrupt: the callable is not invoked
\* again, the interrupt is not taken for a failure of the callable (it is
\* neither last_exc nor raised as one), the run stops, and the SKU being
\* processed is not added to completed_skus.
C18_InterruptInSleepPropagates ==
    hist.sleep_intr =>
        \/ /\ rc.pc = "interrupted"
           /\ pc \in {"ps_upload_wait", "ps_generate_wait"}
           /\ rc.calls = rc.attempt
           /\ rc.sleeps = rc.calls - 1
           /\ rc.outcomes = [i \in 1..rc.calls |-> "exc"]
           /\ rc.last_exc = <<"exc", rc.calls>>
           /\ rc.raised = NoExc
           /\ sku.code \notin completed_set(stateFile)
        \/ /\ rc = RcIdle
           /\ pc = "idle"
           /\ exit = "paused"
           /\ hist.intr.at \in {"ps_upload_wait", "ps_generate_wait"}
           /\ hist.intr.code \notin completed_set(stateFile)

C18_Witness ==
    /\ hist.sleep_intr
    /\ pc = "idle"
    /\ exit = "paused"
    /\ hist.intr.at = "ps_generate_wait"
    /\ hist.intr.partial
    /\ hist.intr.code = 1
    /\ stateFile = Missing

\* process_sku is in refs = upload_references(folder).
InUpload == pc \in {"ps_upload", "ps_upload_wait"}

\* C19: while one SKU is processed no generate is invoked before every
\* reference image of the SKU has been uploaded; when one upload exhausts
\* its retries the upload step fails and no generate is invoked for the SKU
\* in this run.
C19_UploadsPrecedeGenerate ==
    /\ InUpload =>
           /\ sku.angle = 0
           /\ sku.gen_calls = 0
           /\ \A f \in files : f[1] # sku.code
    /\ (pc \in {"ps_generate", "ps_generate_wait"} \/ sku.angle >= 1) =>
           /\ sku.nrefs = folders[sku.code]
           /\ sku.uploaded = sku.nrefs
           /\ JournalEntries(sku.code, "upload") = {}
    /\ (pc = "j_done" /\ rec.entry[2] = "upload") =>
           /\ sku.angle = 0
           /\ sku.uploaded < sku.nrefs
           /\ rec.then \in {"return_false", "reraise"}
    /\ \A c \in Codes :
           JournalEntries(c, "upload") # {} => /\ \A f \in files : f[1] # c
                                              /\ c \notin hist.marked

C19_Witness ==
    /\ pc = "j_done"
    /\ rec.entry = <<sku.code, "upload", "upload_failed">>
    /\ rec.err = "exc"
    /\ sku.nrefs = 2
    /\ sku.uploaded = 1
    /\ JournalEntries(sku.code, "upload") # {}

\* process_sku is about to return False, pause_on_error unset: the second
\* generate_one_image of the current angle has failed too.
AngleFinalFailure ==
    /\ pc = "j_done"
    /\ rec.then = "return_false"
    /\ rec.entry[2] = "sku_run"
    /\ rec.err \in {"exc", "NoImageBytes"}
    /\ sku.first_err # ""

\* C20: for a SKU whose references were uploaded and whose processing is not
\* interrupted, each of the four angles reaches a final outcome before the
\* SKU is evaluated for completion: when process_sku gives the SKU up after
\* the final failure of an angle, no later angle is left unattempted.
C20_EveryAngleReachesFinalOutcome ==
    AngleFinalFailure => sku.angle = Len(Angles)

(***************************************************************************)
(* The square check.                                                       *)
(***************************************************************************)
\* The not_square entries of the error journal for product_code c and key.
QcEntries(c, key) ==
    LET j == load_json(errorFile, <<>>) IN
    {i \in JournalEntries(c, key) : j[i][3] = "not_square"}

\* A raw file of (c, key) is in the output directory.
RawWritten(c, key) == \E f \in files : f[1] = c /\ f[2] = key

\* C21: when a generated image is not square, one not_square entry is
\* appended to the journal for that (product_code, angle) and the file
\* written before the check stays on disk; with pause_on_error unset the
\* next angle follows and the SKU can still be marked complete; with
\* pause_on_error set the SKU is not marked complete and no further angle
\* of it is generated.
C21_NotSquareJournalledAndEscalated ==
    /\ (pc = "j_done" /\ rec.then = "qc") =>
           /\ Cardinality(QcEntries(sku.code, Angles[sku.angle])) = 1
           /\ RawWritten(sku.code, Angles[sku.angle])
    /\ \A c \in Codes : \A i \in DOMAIN Angles :
           /\ <<c, Angles[i], "tolerated">> \in hist.qc =>
                  /\ ~args.pause_on_error
                  /\ RawWritten(c, Angles[i])
                  /\ errorFile.kind = "json" => Cardinality(QcEntries(c, Angles[i])) = 1
           /\ (args.pause_on_error /\ QcEntries(c, Angles[i]) # {}) =>
                  /\ RawWritten(c, Angles[i])
                  /\ \A k \in DOMAIN Angles : k > i => ~RawWritten(c, Angles[k])
                  /\ sku.code = c => sku.angle = i /\ ~InMark
                  /\ pc \notin {"ps_generate", "ps_generate_wait"}
                  /\ c \notin hist.marked
                  /\ c \notin completed_set(stateFile)

\* pause_on_error unset: the first angle came out non-square, the SKU is
\* marked complete all the same.
C21_Witness ==
    /\ ~args.pause_on_error
    /\ <<1, Angles[1], "tolerated">> \in hist.qc
    /\ 1 \in hist.marked
    /\ 1 \in completed_set(stateFile)
    /\ AllAnglesWritten(1)
    /\ Cardinality(QcEntries(1, Angles[1])) = 1

(***************************************************************************)
(* completed_skus over the runs.                                           *)
(***************************************************************************)
\* C23 (nanoBananGen/imagen.py): no step of the program removes a
\* product_code from completed_skus; mark_sku_complete(c) leaves the
\* persisted set equal to the set persisted before united with {c}; a SKU
\* in the persisted set when a run starts is not in that run's pending list.
C23_CompletedSetOnlyGrows ==
    /\ [](variant = "atomic" =>
            \A i \in DOMAIN pending_items :
                pending_items[i].product_code \notin completed_set(hist.start_state))
    /\ [][variant = "atomic" =>
            /\ completed_set(stateFile) \subseteq completed_set(stateFile')
            /\ (pc = "ps_mark_replace" /\ pc' = "ps_return_true") =>
                   completed_set(stateFile') = completed_set(stateFile) \cup {sku.code}]_vars

C23_Witness ==
    /\ variant = "atomic"
    /\ run = 2
    /\ pc = "ps_return_true"
    /\ hist.start_state = Json(<<1>>)
    /\ completed = {1}
    /\ sku.code = 2
    /\ stateFile = Json(<<1, 2>>)

(***************************************************************************)
(* The error journal: one run over one SKU, started with every kind of     *)
(* error_log.json an earlier run can have left.                            *)
(***************************************************************************)
\* An entry appended by an earlier run.
OldEntry == <<1, "sku_run", "sku_run_exception">>

\* A file that holds the entries v and cannot be read as JSON (open or
\* json.load raises): load_json returns its default for it.
Unreadable(v) == [kind |-> "corrupt", val |-> v]

JournalFiles == {Missing, Json(<<>>), Json(<<OldEntry>>), Unreadable(<<OldEntry>>)}

\* The entries a file holds, readable or not.
FileEntries(file) == IF "val" \in DOMAIN file THEN file.val ELSE <<>>

IsPrefix(a, b) == Len(a) <= Len(b) /\ \A i \in DOMAIN a : a[i] = b[i]

InitJournal ==
    /\ variant \in {"atomic", "legacy"}
    /\ cfg = [attempts |-> RETRY_MAX_ATTEMPTS, base_delay |-> RETRY_BASE_DELAY_S,
              max_delay |-> RETRY_MAX_DELAY_S]
    /\ catalog = <<[product_code |-> 1, has_prompts |-> TRUE]>>
    /\ folders \in [Codes -> {NoFolder, 1}]
    /\ \A c \in Codes \ CatalogCodes(catalog) : folders[c] = 1
    /\ stateFile = Missing
    /\ errorFile \in JournalFiles
    /\ stateTmp = Missing
    /\ errorTmp = Missing
    /\ files = {}
    /\ budget = MaxAnomalies
    /\ IdleProcess

SpecJournal == InitJournal /\ [][NextRun]_vars

\* C22: the error journal is append-only: an append_error call leaves it
\* equal to its earlier entries followed by the one new entry, and no step
\* of the program removes, reorders or replaces earlier entries, also when
\* the file cannot be read at the time of the append.
C22_JournalIsAppendOnly ==
    [][variant = "atomic" =>
          /\ IsPrefix(FileEntries(errorFile), FileEntries(errorFile'))
          /\ (pc = "j_replace" /\ pc' = "j_done") =>
                 FileEntries(errorFile') = Append(FileEntries(errorFile), rec.entry)]_vars

(***************************************************************************)
(* The output directory: one run over one SKU, started in a directory      *)
(* where an earlier run may have left a raw file of the first angle.       *)
(***************************************************************************)
\* The raw files of (c, key) in the output directory.
RawFiles(c, key) == {f \in files : f[1] = c /\ f[2] = key}

OldOutputs == {{}} \cup {{<<1, Angles[1], mime_to_ext(m)>>} : m \in Mimes}

InitFiles ==
    /\ variant \in {"atomic", "legacy"}
    /\ cfg = [attempts |-> RETRY_MAX_ATTEMPTS, base_delay |-> RETRY_BASE_DELAY_S,
              max_delay |-> RETRY_MAX_DELAY_S]
    /\ catalog = <<[product_code |-> 1, has_prompts |-> TRUE]>>
    /\ folders = [c \in Codes |-> 1]
    /\ stateFile = Missing
    /\ errorFile = Missing
    /\ stateTmp = Missing
    /\ errorTmp = Missing
    /\ files \in OldOutputs
    /\ run = 1
    /\ args \in CliArgs
    /\ pc = "load_prompts"
    /\ exit = ""
    /\ completed = {}
    /\ pending_items = <<>>
    /\ idx = 0
    /\ processed_success = 0
    /\ sku = SkuIdle
    /\ rec = RecIdle
    /\ rc = RcIdle
    /\ budget = MaxAnomalies
    /\ hist = HistIdle
    /\ OthersIdle

NextFiles ==
    \/ main_load_prompts
    \/ load_completed_skus
    \/ main_discover
    \/ main_loop
    \/ process_sku_start
    \/ upload_references
    \/ upload_references_loop
    \/ process_sku_prompts
    \/ generate_one_image
    \/ generate_one_image_result
    \/ process_sku_write
    \/ process_sku_qc
    \/ mark_sku_complete
    \/ mark_sku_complete_dump
    \/ mark_sku_complete_replace
    \/ process_sku_return_true
    \/ append_error
    \/ append_error_dump
    \/ append_error_replace
    \/ after_append_error
    \/ retry_call_attempt
    \/ retry_call_sleep
    \/ Interrupt
    \/ Kill

SpecFiles == InitFiles /\ [][NextFiles]_vars

\* C24: regeneration is destructive: once process_sku has written the raw
\* file of (product_code, angle), the output directory holds exactly one raw
\* file for that angle, whatever file an earlier run wrote for it.
C24_OneRawFilePerAngle ==
    (sku.code # NoCode /\ sku.angle \in sku.done) =>
        Cardinality(RawFiles(sku.code, Angles[sku.angle])) = 1

(***************************************************************************)
(* A response without image bytes.                                         *)
(***************************************************************************)
\* generate_one_image got a response from retry_call and found no inline
\* image in it: raise RuntimeError("No image bytes returned from API")
EmptyResponseStep ==
    /\ generate_one_image_result
    /\ rc.pc = "returned"
    /\ pc' # "ps_write"

\* C29: a response without image bytes is not retried by retry_call:
\* generate_one_image raises after the one remote call that returned it,
\* process_sku runs generate_one_image again exactly once, and when that
\* one finds no image either the SKU fails; an angle whose responses are
\* always empty costs exactly 2 remote generate calls.
C29_EmptyResponseCostsTwoCalls ==
    /\ [](sku.gen_try <= 2)
    /\ [][EmptyResponseStep =>
            /\ rc' = RcIdle
            /\ "exc" \notin Range(rc.outcomes) => rc.calls = 1
            /\ IF sku.gen_try = 1
               THEN /\ sku'.first_err = "NoImageBytes"
                    /\ sku'.gen_calls = rc.calls
                    /\ IF variant = "atomic"
                       THEN pc' = "j_append" /\ rec'.then = "gen_retry"
                       ELSE pc' = "ps_generate" /\ sku'.gen_try = 2
               ELSE /\ pc' = "j_append"
                    /\ rec'.entry = <<sku.code, "sku_run",
                                      IF variant = "atomic" THEN "sku_run_exception"
                                      ELSE "NoImageBytes">>
                    /\ rec'.then \in {"return_false", "reraise"}
                    /\ (sku.first_err = "NoImageBytes" /\ sku.gen_calls = 1
                          /\ "exc" \notin Range(rc.outcomes))
                          => sku.gen_calls + rc.calls = 2]_vars
    /\ [][(after_append_error /\ rec.then = "gen_retry") =>
            (pc' = "ps_generate" /\ sku'.gen_try = 2 /\ sku'.angle = sku.angle)]_vars

\* Both responses for an angle were empty, one remote call each; process_sku
\* is writing the sku_run entry.
C29_Witness ==
    /\ pc = "j_append"
    /\ rec.entry[2] = "sku_run"
    /\ rec.err = "NoImageBytes"
    /\ sku.first_err = "NoImageBytes"
    /\ sku.gen_calls = 1
    /\ sku.gen_try = 2

(***************************************************************************)
(* The journal entries of the SKUs that failed: one run of                 *)
(* nanoBananGen/imagen.py on a catalog of up to MaxCatalog records, with   *)
(* up to MaxSkuAnomalies departures from the nominal environment and a     *)
(* journal that holds no entry when the run starts.                        *)
(***************************************************************************)
InitFailures ==
    /\ variant = "atomic"
    /\ cfg = [attempts |-> RETRY_MAX_ATTEMPTS, base_delay |-> RETRY_BASE_DELAY_S,
              max_delay |-> RETRY_MAX_DELAY_S]
    /\ catalog \in Catalogs(MaxCatalog)
    /\ UniqueKeys(catalog)
    /\ folders \in [Codes -> {NoFolder, 0, MAX_REF_IMAGES + 1} \cup 1..MaxRefs]
    /\ \A c \in Codes \ CatalogCodes(catalog) : folders[c] = 1
    /\ stateFile \in StateFiles
    /\ errorFile \in {Missing, Corrupt}
    /\ stateTmp = Missing
    /\ errorTmp = Missing
    /\ files = {}
    /\ StaticAnomalies(catalog, folders, stateFile, errorFile) <= MaxSkuAnomalies
    /\ budget = MaxSkuAnomalies - StaticAnomalies(catalog, folders, stateFile, errorFile)
    /\ IdleProcess

SpecFailures == InitFailures /\ [][NextRun]_vars

\* C30: in nanoBananGen/imagen.py every SKU that a run attempts and leaves
\* out of completed_skus because of a failure (not an interrupt) has at least
\* one journal entry with its product_code appended during that run,
\* whichever way it failed.
C30_FailedSkuIsJournalled ==
    (pc = "idle" /\ exit \in {"done", "stopped"}) =>
        \A i \in 1..Min(idx, Len(pending_items)) :
            pending_items[i].product_code \notin completed_set(stateFile) =>
                \E k \in DOMAIN FileEntries(errorFile) :
                    FileEntries(errorFile)[k][1] = pending_items[i].product_code

\* A run of two SKUs: the first one has no reference folder, the second one
\* lacks its prompts and stops the run from outside process_sku's try blocks.
C30_Witness ==
    /\ pc = "idle"
    /\ exit = "stopped"
    /\ idx = 2
    /\ processed_success = 0
    /\ folders[pending_items[1].product_code] = NoFolder
    /\ ~pending_items[2].has_prompts
    /\ FileEntries(errorFile) =
          <<<<pending_items[1].product_code, "n/a", "reference_folder_missing">>,
            <<pending_items[2].product_code, "run_loop", "fatal_run_stop">>>>

(***************************************************************************)
(* Misc Utilities/gpt-image-1.py: discover_tasks, then process_one run by  *)
(* the threads of a ThreadPoolExecutor while main counts the futures as    *)
(* they complete.  A file of ROOT is [sub, stem, suffix].                  *)
(***************************************************************************)
MaxPoolFiles == 3
PoolWorkers == 2

Subfolders == {"s1", "s2"}
Stems      == {"a", "b"}
Suffixes   == {".PNG", ".jpg", ".png"}
ACCEPTED_EXT == {".png"}

\* str.lower() on the suffixes
Lower(x) ==
    CASE x = ".PNG" -> ".png"
      [] x = ".JPG" -> ".jpg"
      [] OTHER      -> x

\* The order of str on the name parts: upper case before lower case.
Rank(x) ==
    CASE x \in {"s1", "B", ".JPG"} -> 1
      [] x \in {"s2", "a", ".PNG"} -> 2
      [] x \in {"b", ".jpeg"}      -> 3
      [] x = ".jpg"                -> 4
      [] OTHER                     -> 5

PathKey(f) == Rank(f.sub) * 100 + Rank(f.stem) * 10 + Rank(f.suffix)

RECURSIVE SortPaths(_)
\* sorted(ROOT.iterdir()) and, in each subfolder, sorted(entry.iterdir())
SortPaths(S) ==
    IF S = {} THEN <<>>
    ELSE LET f == CHOOSE x \in S : \A y \in S : PathKey(x) <= PathKey(y)
         IN  <<f>> \o SortPaths(S \ {f})

\* dst = sub_out / (p.stem + ".png"), sub_out = CENTRAL_OUT / entry.name
Dst(f) == <<f.sub, f.stem, ".png">>

\* discover_tasks: the (src, dst) pairs of the files with an accepted suffix
\* whose dst does not exist yet
discover_tasks(tree, out) ==
    LET admitted == SelectSeq(SortPaths(tree),
                              LAMBDA f : Lower(f.suffix) \in ACCEPTED_EXT /\ Dst(f) \notin out)
    IN  [i \in DOMAIN admitted |-> [src |-> admitted[i], dst |-> Dst(admitted[i])]]

\* Fault: process_one lets the exception of a task out.
process_one_reraises(outcome) == IF outcome = "ok" THEN "ok" ELSE "raised"

\* process_one: return True, ... / except Exception as e: ... return False, ...
process_one_result(outcome) == IF outcome = "ok" THEN "ok" ELSE "fail"

\* The files of ROOT's subfolders, up to MaxPoolFiles of them.
PoolTrees ==
    {t \in SUBSET [sub : Subfolders, stem : Stems, suffix : Suffixes] :
        Cardinality(t) <= MaxPoolFiles}

\* imagen.py is not running.
ImagenStopped ==
    /\ cfg = [attempts |-> RETRY_MAX_ATTEMPTS, base_delay |-> RETRY_BASE_DELAY_S,
              max_delay |-> RETRY_MAX_DELAY_S]
    /\ catalog = <<>>
    /\ folders = <<>>
    /\ stateFile = Missing /\ stateTmp = Missing /\ errorFile = Missing /\ errorTmp = Missing
    /\ files = {}
    /\ run = 0
    /\ args = ArgsNone
    /\ pc = "idle"
    /\ exit = ""
    /\ completed = {}
    /\ pending_items = <<>>
    /\ idx = 0
    /\ processed_success = 0
    /\ sku = SkuIdle
    /\ rec = RecIdle
    /\ rc = RcIdle
    /\ budget = 0
    /\ hist = HistIdle

NoImagen == variant = "atomic" /\ ImagenStopped

imagenVars == <<variant, cfg, catalog, folders, stateFile, stateTmp, errorFile, errorTmp,
                files, run, args, pc, exit, completed, pending_items, idx,
                processed_success, sku, rc, rec, budget, hist>>

InitPool ==
    /\ NoImagen
    /\ up = UpIdle
    /\ batch = BatchIdle
    /\ \E root \in BOOLEAN, tree \in PoolTrees :
          /\ ~root => tree = {}
          /\ \E out \in {{}} \cup {{Dst(f)} : f \in tree} :
                pool = [PoolIdle EXCEPT !.pc = "start", !.root = root, !.tree = tree,
                                        !.out = out]

\* main: tasks = discover_tasks(); if not tasks: return; the pool.submit of
\* every task
pool_main_discover ==
    /\ pool.pc = "start"
    /\ IF ~pool.root
       THEN pool' = [pool EXCEPT !.pc = "exited", !.code = 1]
       ELSE LET tasks == discover_tasks(pool.tree, pool.out) IN
            IF tasks = <<>>
            THEN pool' = [pool EXCEPT !.pc = "exited", !.code = 0]
            ELSE pool' = [pool EXCEPT !.pc = "pool", !.tasks = tasks,
                                      !.fut = [i \in DOMAIN tasks |-> "queued"],
                                      !.runs = [i \in DOMAIN tasks |-> 0]]
    /\ UNCHANGED <<imagenVars, up, batch>>

\* A free worker thread takes the oldest queued task and enters process_one.
process_one_start ==
    /\ pool.pc \in {"pool", "raising"}
    /\ Cardinality({j \in DOMAIN pool.fut : pool.fut[j] \in {"running", "got"}}) < PoolWorkers
    /\ \E i \in DOMAIN pool.fut :
          /\ pool.fut[i] = "queued"
          /\ \A j \in DOMAIN pool.fut : pool.fut[j] = "queued" => i <= j
          /\ pool' = [pool EXCEPT !.fut[i] = "running", !.runs[i] = @ + 1]
    /\ UNCHANGED <<imagenVars, up, batch>>

\* process_one: data = edit_image_single(src), retries inside
process_one_edit ==
    /\ \E i \in DOMAIN pool.fut :
          /\ pool.fut[i] = "running"
          /\ \E outcome \in {"ok", "exc"} :
                pool' = [pool EXCEPT !.fut[i] = IF outcome = "ok" THEN "got"
                                               ELSE process_one_result(outcome)]
    /\ UNCHANGED <<imagenVars, up, batch>>

\* process_one: with open(dst, "wb") as f: f.write(data); return True, ...
process_one_write ==
    /\ \E i \in DOMAIN pool.fut :
          /\ pool.fut[i] = "got"
          /\ \E outcome \in {"ok", "exc"} :
                IF outcome = "ok"
                THEN pool' = [pool EXCEPT !.fut[i] = process_one_result(outcome),
                                          !.out = @ \cup {pool.tasks[i].dst},
                                          !.wrote = @ \cup {i}]
                ELSE pool' = [pool EXCEPT !.fut[i] = process_one_result(outcome)]
    /\ UNCHANGED <<imagenVars, up, batch>>

\* main: for fut in as_completed(future_map): ok, msg = fut.result(); count
pool_main_as_completed ==
    /\ pool.pc = "pool"
    /\ \E i \in DOMAIN pool.fut \ pool.counted :
          /\ pool.fut[i] \in {"ok", "fail", "raised"}
          /\ CASE pool.fut[i] = "ok" ->
                     pool' = [pool EXCEPT !.counted = @ \cup {i}, !.successes = @ + 1]
                [] pool.fut[i] = "fail" ->
                     pool' = [pool EXCEPT !.counted = @ \cup {i}, !.failures = @ + 1]
                [] OTHER ->
                     pool' = [pool EXCEPT !.pc = "raising"]
    /\ UNCHANGED <<imagenVars, up, batch>>

\* main: the end of the with block (shutdown(wait=True)), the summary, and
\* sys.exit(2) if failures > 0; or the traceback of an exception got from
\* fut.result()
pool_main_exit ==
    /\ pool.pc \in {"pool", "raising"}
    /\ \A j \in DOMAIN pool.fut : pool.fut[j] \in {"ok", "fail", "raised"}
    /\ pool.pc = "pool" => pool.counted = DOMAIN pool.fut
    /\ pool' = [pool EXCEPT !.pc = "exited",
                            !.code = IF pool.pc = "raising" THEN 1
                                     ELSE IF pool.failures > 0 THEN 2 ELSE 0]
    /\ UNCHANGED <<imagenVars, up, batch>>

NextPool ==
    \/ pool_main_discover
    \/ process_one_start
    \/ process_one_edit
    \/ process_one_write
    \/ pool_main_as_completed
    \/ pool_main_exit

SpecPool == InitPool /\ [][NextPool]_vars

\* C25: no two tasks of discover_tasks have the same destination path, so no
\* two worker threads write the same output file, whatever the folders hold.
C25_DestinationsNeverCollide ==
    \A i, j \in DOMAIN pool.tasks :
        pool.tasks[i].dst = pool.tasks[j].dst => i = j

\* The worker threads and the main thread all get to run.
SpecPoolFair ==
    /\ InitPool
    /\ [][NextPool]_vars
    /\ WF_vars(pool_main_discover)
    /\ WF_vars(process_one_start)
    /\ WF_vars(process_one_edit)
    /\ WF_vars(process_one_write)
    /\ WF_vars(pool_main_as_completed)
    /\ WF_vars(pool_main_exit)

\* C27: under every interleaving of the worker threads each discovered task
\* is run by process_one exactly once, main terminates with successes +
\* failures equal to the number of tasks and exits with code 2 exactly when
\* failures > 0; a task that fails keeps no other task from being counted.
C27_EveryTaskRunOnceAndCounted ==
    /\ [](\A i \in DOMAIN pool.runs : pool.runs[i] <= 1)
    /\ []((pool.pc = "exited" /\ pool.tasks # <<>>) =>
            /\ \A i \in DOMAIN pool.tasks : pool.runs[i] = 1 /\ pool.fut[i] \in {"ok", "fail"}
            /\ pool.counted = DOMAIN pool.tasks
            /\ pool.successes = Cardinality({i \in DOMAIN pool.tasks : pool.fut[i] = "ok"})
            /\ pool.failures = Cardinality({i \in DOMAIN pool.tasks : pool.fut[i] = "fail"})
            /\ pool.successes + pool.failures = Len(pool.tasks))
    /\ [](pool.pc = "exited" => (pool.code = 2 <=> pool.failures > 0))
    /\ <>(pool.pc = "exited")

\* Three tasks on two workers, the first one failed, the others written.
C27_Witness ==
    /\ pool.pc = "exited"
    /\ Len(pool.tasks) = 3
    /\ pool.fut = <<"fail", "ok", "ok">>
    /\ pool.successes = 2
    /\ pool.failures = 1
    /\ pool.code = 2

(***************************************************************************)
(* upload_references of the two imagen.py, file by file: the directory     *)
(* listing in the order os.listdir gives it, the names kept, and the       *)
(* handles in the order they are appended.  A name is [stem, suffix]; the  *)
(* handle of an upload is the name it was made from.                       *)
(***************************************************************************)
MaxListing == 3

RefNames == [stem : {"B", "a"}, suffix : {".JPG", ".jpeg", ".png"}]

\* The listings of a folder: its names once each, in any order.
Listings ==
    {l \in UNION {[1..n -> RefNames] : n \in 0..MaxListing} :
        \A i, j \in DOMAIN l : l[i] = l[j] => i = j}

\* f.lower().endswith((".jpg", ".jpeg"))
is_jpg(f) == Lower(f.suffix) \in {".jpg", ".jpeg"}

RefKey(f) == Rank(f.stem) * 10 + Rank(f.suffix)

RECURSIVE SortNames(_)
\* sorted([...]) of a list of names
SortNames(S) ==
    IF S = {} THEN <<>>
    ELSE LET f == CHOOSE x \in S : \A y \in S : RefKey(x) <= RefKey(y)
         IN  <<f>> \o SortNames(S \ {f})

\* atomic: files = sorted([f for f in os.listdir(folder_path) if ...])
\* legacy: jpgs = [f for f in os.listdir(folder_path) if ...]
reference_files(v, listing) ==
    LET kept == SelectSeq(listing, is_jpg) IN
    IF v = "atomic" THEN SortNames({kept[i] : i \in DOMAIN kept}) ELSE kept

InitUpload ==
    /\ variant \in {"atomic", "legacy"}
    /\ ImagenStopped
    /\ pool = PoolIdle
    /\ batch = BatchIdle
    /\ \E l \in Listings : up = [UpIdle EXCEPT !.pc = "start", !.listing = l]

\* upload_references up to the loop: the names kept, the two size checks
up_upload_references ==
    /\ up.pc = "start"
    /\ LET names == reference_files(variant, up.listing) IN
       IF Len(names) = 0 \/ Len(names) > MAX_REF_IMAGES
       THEN up' = [up EXCEPT !.pc = "raised", !.files = names]
       ELSE up' = [up EXCEPT !.pc = "loop", !.files = names]
    /\ UNCHANGED <<imagenVars, pool, batch>>

\* for fname in files: fobj = retry_call(_upload_single_file, path);
\* uploaded.append(fobj); after the last one, return uploaded
up_upload_loop ==
    /\ up.pc = "loop"
    /\ \E outcome \in {"ok", "exc"} :
          IF outcome = "exc"
          THEN up' = [up EXCEPT !.pc = "raised"]
          ELSE LET uploaded == Append(up.uploaded, up.files[Len(up.uploaded) + 1]) IN
               up' = [up EXCEPT !.uploaded = uploaded,
                                !.pc = IF Len(uploaded) = Len(up.files) THEN "returned"
                                       ELSE "loop"]
    /\ UNCHANGED <<imagenVars, pool, batch>>

NextUpload ==
    \/ up_upload_references
    \/ up_upload_loop

SpecUpload == InitUpload /\ [][NextUpload]_vars

\* The JPG/JPEG names of the listing in sorted order
SortedReferences == LET kept == SelectSeq(up.listing, is_jpg)
                    IN  SortNames({kept[i] : i \in DOMAIN kept})

\* C26: in both imagen.py, upload_references uploads the reference files in
\* sorted name order and returns the handles in that order, whatever order
\* the directory listing has.
C26_UploadsInSortedNameOrder ==
    /\ IsPrefix(up.uploaded, SortedReferences)
    /\ up.pc = "returned" => up.uploaded = SortedReferences

(***************************************************************************)
(* nanoBananGen/gpt-image-1.py, process_subfolder: one batch edit of the   *)
(* first BATCH_LIMIT images of a subfolder and the per-image fallbacks.    *)
(* The images are 1..imgs in sorted order; counts[i] is how many times     *)
(* image i has been added to success or fail.                              *)
(***************************************************************************)
BATCH_LIMIT == 4
MaxPngs == 5

\* Fault: the whole list goes into the batch.
batch_unlimited(n) == n

\* imgs = imgs[:BATCH_LIMIT]
batch_selected(n) == Min(n, BATCH_LIMIT)

InitBatch ==
    /\ NoImagen
    /\ pool = PoolIdle
    /\ up = UpIdle
    /\ \E n \in 0..MaxPngs : batch = [BatchIdle EXCEPT !.pc = "start", !.pngs = n]

\* success += 1 or fail += 1 for image i, then the next image or the return
batch_count(b, ok) ==
    LET c == [b EXCEPT !.counts[b.i] = @ + 1,
                       !.success = IF ok THEN @ + 1 ELSE @,
                       !.fail = IF ok THEN @ ELSE @ + 1]
    IN  IF b.i = b.imgs THEN [c EXCEPT !.pc = "returned"]
        ELSE [c EXCEPT !.i = @ + 1, !.pc = IF b.pc = "fallback" THEN "save" ELSE b.pc]

\* process_subfolder up to the batch attempt
process_subfolder ==
    /\ batch.pc = "start"
    /\ IF batch.pngs = 0
       THEN batch' = [batch EXCEPT !.pc = "returned"]
       ELSE LET n == batch_selected(batch.pngs) IN
            batch' = [batch EXCEPT !.pc = "batch", !.imgs = n, !.counts = [k \in 1..n |-> 0]]
    /\ UNCHANGED <<imagenVars, pool, up>>

\* outputs = edit_images_batch(imgs): one output per image, another number
\* of outputs (then outputs = [None] * len(imgs)), or an exception after
\* the retries (then the except clause of the outer try)
process_subfolder_batch ==
    /\ batch.pc = "batch"
    /\ \/ batch' = [batch EXCEPT !.pc = "save", !.i = 1, !.outcome = "ok",
                                  !.outputs = [k \in 1..batch.imgs |-> "bytes"]]
       \/ \E got \in (0..(batch.imgs + 1)) \ {batch.imgs} :
             batch' = [batch EXCEPT !.pc = "save", !.i = 1, !.outcome = "mismatch",
                                    !.outputs = [k \in 1..batch.imgs |-> "None"]]
       \/ batch' = [batch EXCEPT !.pc = "each", !.i = 1, !.outcome = "exc"]
    /\ UNCHANGED <<imagenVars, pool, up>>

\* for i, src in enumerate(imgs): the inner try, writing outputs[i]
process_subfolder_save ==
    /\ batch.pc = "save"
    /\ IF batch.outputs[batch.i] = "None"
       THEN batch' = [batch EXCEPT !.pc = "fallback"]
       ELSE \E written \in BOOLEAN :
              batch' = IF written THEN batch_count(batch, TRUE)
                       ELSE [batch EXCEPT !.pc = "fallback"]
    /\ UNCHANGED <<imagenVars, pool, up>>

\* except Exception as e: the single fallback for that image
process_subfolder_fallback ==
    /\ batch.pc = "fallback"
    /\ \E ok \in BOOLEAN : batch' = batch_count(batch, ok)
    /\ UNCHANGED <<imagenVars, pool, up>>

\* except Exception as e: (whole batch failed) for src in imgs: ...
process_subfolder_each ==
    /\ batch.pc = "each"
    /\ \E ok \in BOOLEAN : batch' = batch_count(batch, ok)
    /\ UNCHANGED <<imagenVars, pool, up>>

NextBatch ==
    \/ process_subfolder
    \/ process_subfolder_batch
    \/ process_subfolder_save
    \/ process_subfolder_fallback
    \/ process_subfolder_each

SpecBatch == InitBatch /\ [][NextBatch]_vars

\* C28: whatever the batch call and the per-image fallbacks do,
\* process_subfolder returns (success, fail) with success + fail = min(number
\* of PNG files, BATCH_LIMIT), and each selected image is counted exactly once.
C28_EachSelectedImageCountedOnce ==
    /\ \A k \in DOMAIN batch.counts : batch.counts[k] <= 1
    /\ batch.pc = "returned" =>
          /\ batch.success + batch.fail = Min(batch.pngs, BATCH_LIMIT)
          /\ DOMAIN batch.counts = 1..Min(batch.pngs, BATCH_LIMIT)
          /\ \A k \in DOMAIN batch.counts : batch.counts[k] = 1

\* Five PNG files, the batch gave four outputs, two writes failed and one of
\* their fallbacks failed too.
C28_Witness ==
    /\ batch.pc = "returned"
    /\ batch.pngs = 5
    /\ batch.outcome = "ok"
    /\ batch.success = 3
    /\ batch.fail = 1

====
